---------------------------- MODULE Spec2Model ----------------------------
(***************************************************************************)
(* Model of graphgpt/model/GraphLlama.py: the embedding splicer of         *)
(* GraphLlamaModel.forward and the token registrar                         *)
(* GraphLlamaForCausalLM.initialize_graph_tokenizer.                       *)
(*                                                                         *)
(* Tensors are sequences.  Positions and token ids are 0-based as in the   *)
(* source; a sequence index is the position plus one.  A scalar of an      *)
(* embedding row is an integer; an element of an embedding sequence is a   *)
(* record [v, grad] of its value and whether it is attached to the         *)
(* gradient graph.  Optional values are sequences of length 0 (None) or 1. *)
(***************************************************************************)
EXTENDS Integers, Sequences, FiniteSets, TLC

(* ------------------------------ bounds --------------------------------- *)
\* rows of the embedding tables before any marker token is added
InitVocab == 2
\* largest batch_size * sequence_length of one forward call
MaxTokens == 6
\* largest batch size of one forward call
MaxBatch == 2
\* largest number of graph feature sets handed to one forward call
MaxSets == 2
\* largest number of nodes of one graph
MaxNodes == 2
\* largest batch_size * sequence_length of a forward call in SpecReg
RegTokens == 2
\* largest number of graph feature sets handed to a forward call in SpecReg
RegSets == 1
\* largest batch_size * sequence_length of the prompt of a generation
GenTokens == 3
\* largest number of forward calls of one generation
MaxGenSteps == 3

(* ------------------------------ constants ------------------------------ *)
DEFAULT_GRAPH_PATCH_TOKEN == "<g_patch>"
DEFAULT_G_START_TOKEN == "<g_start>"
DEFAULT_G_END_TOKEN == "<g_end>"

None == << >>
Some(x) == << x >>

(* ------------------------------ helpers -------------------------------- *)
Min(a, b) == IF a < b THEN a ELSE b

RECURSIVE Fact(_)
Fact(n) == IF n <= 1 THEN 1 ELSE n * Fact(n - 1)

\* every table scalar is a multiple of RowUnit, so that the mean over at most
\* InitVocab + 1 rows is an exact integer
RowUnit == Fact(InitVocab + 2)

RECURSIVE SumSeq(_)
SumSeq(s) == IF s = << >> THEN 0 ELSE Head(s) + SumSeq(Tail(s))

\* tensor[a:b] with Python's clamping, 0-based, a >= 0
PySlice(s, a, b) == SubSeq(s, a + 1, Min(b, Len(s)))

\* tensor[a:]
PyFrom(s, a) == SubSeq(s, a + 1, Len(s))

\* tensor[:-k]
PyDropLast(s, k) == SubSeq(s, 1, Len(s) - k)

\* (cur_input_ids == tok).sum()
CountTok(ids, tok) == Cardinality({j \in 1..Len(ids) : Some(ids[j]) = tok})

\* torch.where(cur_input_ids == tok)[0]: the 0-based positions, ascending
RECURSIVE WhereFrom(_, _, _)
WhereFrom(ids, tok, j) ==
    IF j > Len(ids) THEN << >>
    ELSE (IF Some(ids[j]) = tok THEN << j - 1 >> ELSE << >>) \o WhereFrom(ids, tok, j + 1)

Where(ids, tok) == WhereFrom(ids, tok, 1)

\* torch.arange(a, a + n)
Arange(a, n) == [k \in 1..n |-> a + k - 1]

\* tensor.detach()
Detach(row) == [j \in 1..Len(row) |-> [v |-> row[j].v, grad |-> FALSE]]

Values(row) == [j \in 1..Len(row) |-> row[j].v]

(* ------------------------------ tokenizer ------------------------------ *)
\* a tokenizer is [base |-> number of text tokens, added |-> added tokens in order]
TokLen(tk) == tk.base + Len(tk.added)

HasToken(tk, name) == \E k \in 1..Len(tk.added) : tk.added[k] = name

\* tokenizer.convert_tokens_to_ids([name])[0]
TokenId(tk, name) ==
    IF HasToken(tk, name)
    THEN Some(tk.base + (CHOOSE k \in 1..Len(tk.added) : tk.added[k] = name) - 1)
    ELSE None

\* tokenizer.add_tokens(names): tokens already in the vocabulary are skipped
RECURSIVE AddTokens(_, _)
AddTokens(tk, names) ==
    IF names = << >> THEN tk
    ELSE AddTokens(IF HasToken(tk, Head(names)) THEN tk
                   ELSE [tk EXCEPT !.added = Append(@, Head(names))],
                   Tail(names))

\* resize_token_embeddings(n) on one table: the new rows are freshly initialised
ResizeTable(table, n, rnd) ==
    IF n <= Len(table) THEN SubSeq(table, 1, n)
    ELSE table \o [k \in 1..(n - Len(table)) |-> rnd]

\* tensor.mean(dim=0)
Mean(rows) == SumSeq(rows) \div Len(rows)

\* table[-k:] = value
SetLast(table, k, value) ==
    [j \in 1..Len(table) |-> IF j > Len(table) - k THEN value ELSE table[j]]

\* table[-k:] = rows[-k:]
CopyLast(table, k, rows) ==
    [j \in 1..Len(table) |->
        IF j > Len(table) - k THEN rows[Len(rows) - (Len(table) - j)] ELSE table[j]]

(* ------------------------------ registrar ------------------------------ *)
\* A model record m holds the fields the registrar reads and writes:
\* tokenizer, use_graph_start_end, graph_patch_token, graph_start_token,
\* graph_end_token, input_embeddings, output_embeddings, orig_embeds_params,
\* in_requires_grad, out_requires_grad, err (the exception raised, "" if none)
\* and call (None, or the arguments of the last registrar call, the checkpoint
\* argument as whether one was given).

\* tokenizer.add_tokens([<g_patch>]); self.resize_token_embeddings(len(tokenizer))
AddPatchToken(m, use_se, rnd_in, rnd_out) ==
    LET tk == AddTokens(m.tokenizer, << DEFAULT_GRAPH_PATCH_TOKEN >>)
    IN  [m EXCEPT !.use_graph_start_end = Some(use_se),
                  !.tokenizer = tk,
                  !.input_embeddings = ResizeTable(@, TokLen(tk), rnd_in),
                  !.output_embeddings = ResizeTable(@, TokLen(tk), rnd_out)]

\* tokenizer.add_tokens([<g_start>, <g_end>]); resize; record the two ids
AddStartEndTokens(m, rnd_in, rnd_out) ==
    LET tk == AddTokens(m.tokenizer, << DEFAULT_G_START_TOKEN, DEFAULT_G_END_TOKEN >>)
    IN  [m EXCEPT !.tokenizer = tk,
                  !.input_embeddings = ResizeTable(@, TokLen(tk), rnd_in),
                  !.output_embeddings = ResizeTable(@, TokLen(tk), rnd_out),
                  !.graph_start_token = TokenId(tk, DEFAULT_G_START_TOKEN),
                  !.graph_end_token = TokenId(tk, DEFAULT_G_END_TOKEN)]

\* if num_new_tokens > 0: the last num_new_tokens rows := mean of the rows before them
MeanInit(m, num_new_tokens) ==
    IF num_new_tokens > 0
    THEN [m EXCEPT
            !.input_embeddings =
                SetLast(@, num_new_tokens, Mean(PyDropLast(@, num_new_tokens))),
            !.output_embeddings =
                SetLast(@, num_new_tokens, Mean(PyDropLast(@, num_new_tokens)))]
    ELSE m

\* variant: the flags are set, the snapshot is not taken
TuneAdapter_NoSnapshot(m, tune_graph_mlp_adapter) ==
    IF tune_graph_mlp_adapter
    THEN [m EXCEPT !.in_requires_grad = TRUE,
                   !.out_requires_grad = FALSE]
    ELSE m

\* if tune_graph_mlp_adapter: snapshot the input table, set the requires_grad flags
TuneAdapter(m, tune_graph_mlp_adapter) ==
    IF tune_graph_mlp_adapter
    THEN [m EXCEPT !.orig_embeds_params = Some(m.input_embeddings),
                   !.in_requires_grad = TRUE,
                   !.out_requires_grad = FALSE]
    ELSE m

\* if pretrain_graph_mlp_adapter: overwrite the new rows from the checkpoint's
\* 'model.embed_tokens.weight' (ckpt is None or Some(weight))
LoadPretrained(m, num_new_tokens, ckpt) ==
    IF ckpt = None THEN m
    ELSE LET w == ckpt[1]
         IN  IF num_new_tokens # 2 THEN [m EXCEPT !.err = "AssertionError"]
             ELSE IF Len(w) = Len(m.input_embeddings)
                  THEN [m EXCEPT !.input_embeddings = CopyLast(@, num_new_tokens, w)]
             ELSE IF Len(w) = num_new_tokens
                  THEN [m EXCEPT !.input_embeddings = CopyLast(@, num_new_tokens, w)]
             ELSE [m EXCEPT !.err = "AdapterShapeMismatch"]

\* the block under `if use_graph_start_end:`
StartEndBlock(m, tune_graph_mlp_adapter, ckpt, rnd_in, rnd_out) ==
    LET m1 == AddStartEndTokens(m, rnd_in, rnd_out)
        num_new_tokens == TokLen(m1.tokenizer) - TokLen(m.tokenizer)
        m2 == MeanInit(m1, num_new_tokens)
        m3 == TuneAdapter(m2, tune_graph_mlp_adapter)
    IN  LoadPretrained(m3, num_new_tokens, ckpt)

\* vision_config.graph_patch_token = tokenizer.convert_tokens_to_ids([<g_patch>])[0]
SetPatchToken(m) ==
    IF m.err # "" THEN m
    ELSE [m EXCEPT !.graph_patch_token = TokenId(m.tokenizer, DEFAULT_GRAPH_PATCH_TOKEN)]

InitializeGraphTokenizer(m, use_se, tune_graph_mlp_adapter, ckpt, rnd_in, rnd_out) ==
    LET m0 == [m EXCEPT !.err = "",
                        !.call = Some([use_graph_start_end |-> use_se,
                                       tune_graph_mlp_adapter |-> tune_graph_mlp_adapter,
                                       pretrain_graph_mlp_adapter |-> (ckpt # None)])]
        m1 == AddPatchToken(m0, use_se, rnd_in, rnd_out)
        m2 == IF use_se
              THEN StartEndBlock(m1, tune_graph_mlp_adapter, ckpt, rnd_in, rnd_out)
              ELSE m1
    IN  SetPatchToken(m2)

\* the model right after construction: a tokenizer of InitVocab text tokens and
\* embedding tables of known values, no marker registered
FreshModel ==
    [tokenizer |-> [base |-> InitVocab, added |-> << >>],
     use_graph_start_end |-> None,
     graph_patch_token |-> None,
     graph_start_token |-> None,
     graph_end_token |-> None,
     input_embeddings |-> [i \in 1..InitVocab |-> (i + 1) * RowUnit],
     output_embeddings |-> [i \in 1..InitVocab |-> (i + InitVocab + 1) * RowUnit],
     orig_embeds_params |-> None,
     in_requires_grad |-> TRUE,
     out_requires_grad |-> TRUE,
     err |-> "",
     call |-> None]

\* values a freshly initialised row can take
RandVals == {0, RowUnit}

\* checkpoints a caller can hand to the registrar: none, a full table, the two
\* marker rows alone, a tensor of another shape
Checkpoints(rows) ==
    {None,
     Some([i \in 1..rows |-> 0 - i]),
     Some(<< 0 - 1, 0 - 2 >>),
     Some(<< 0 - 1 >>)}

(* ------------------------------ splicer -------------------------------- *)
\* self.embed_tokens(input_ids) for one sequence: a row lookup; the elements carry
\* the requires_grad flag of the input-embedding parameters
EmbedTokens(table, requires_grad, ids) ==
    [j \in 1..Len(ids) |-> [v |-> table[ids[j] + 1], grad |-> requires_grad]]

\* self.graph_projector(x) for one scalar
GraphProjector(proj, x) == proj.weight * x + proj.bias

\* graph_tower(g) followed by the projector: the graph at place s of the flat
\* list, with n nodes, yields n projected node features
ProjectedFeatures(proj, s, n) ==
    [k \in 1..n |-> [v |-> GraphProjector(proj, s * (MaxNodes + 1) + k), grad |-> TRUE]]

\* the flat list of node counts the encoder loop produces from graph_data: one
\* per Data element, graph_1 then graph_2 per dict element
RECURSIVE FlatNodes(_)
FlatNodes(elems) ==
    IF elems = << >> THEN << >> ELSE Head(elems).nodes \o FlatNodes(Tail(elems))

\* the branch on type(graph_data[0]): a first element that is neither a Data nor
\* a dict leaves the list of features empty
GraphNodeFeatures(proj, gd) ==
    LET flat == IF gd.elems[1].type \in {"Data", "dict"} THEN FlatNodes(gd.elems)
                ELSE << >>
    IN  [s \in 1..Len(flat) |-> ProjectedFeatures(proj, s, flat[s])]

\* (0. * dummy_graph_features).sum(): dummy_graph_features is the projection of
\* a tensor of DummyRows rows of zeros
DummyRows == 256
\* variant: the dummy features are summed without the factor 0
DummyTerm_NoZero(proj) == DummyRows * GraphProjector(proj, 0)

DummyTerm(proj) == 0 * (DummyRows * GraphProjector(proj, 0))

\* cur_input_embeds + (0. * dummy_graph_features).sum()
AddDummy(row, proj) ==
    [j \in 1..Len(row) |-> [v |-> row[j].v + DummyTerm(proj), grad |-> TRUE]]

\* variant: the tail starts after the END marker
CatStartEnd_DropEnd(embeds, feats, p, n, protect) ==
    IF protect
    THEN Detach(PySlice(embeds, 0, p)) \o PySlice(embeds, p, p + 1) \o feats
         \o Detach(PyFrom(embeds, p + n + 2))
    ELSE PySlice(embeds, 0, p + 1) \o feats \o PyFrom(embeds, p + n + 2)

\* the torch.cat of one start/end region; p is the START position, n = num_patches
CatStartEnd(embeds, feats, p, n, protect) ==
    IF protect
    THEN Detach(PySlice(embeds, 0, p)) \o PySlice(embeds, p, p + 1) \o feats
         \o PySlice(embeds, p + n + 1, p + n + 2) \o Detach(PyFrom(embeds, p + n + 2))
    ELSE PySlice(embeds, 0, p + 1) \o feats \o PyFrom(embeds, p + n + 1)

\* variant: the slices of the start/end branch, which keep the token at p
CatPatch_Shifted(embeds, feats, p, n, protect) ==
    IF protect
    THEN Detach(PySlice(embeds, 0, p + 1)) \o feats \o Detach(PyFrom(embeds, p + n + 1))
    ELSE PySlice(embeds, 0, p + 1) \o feats \o PyFrom(embeds, p + n + 1)

\* the torch.cat of the patch-only branch; p = mask_index_start
CatPatch(embeds, feats, p, n, protect) ==
    IF protect
    THEN Detach(PySlice(embeds, 0, p)) \o feats \o Detach(PyFrom(embeds, p + n))
    ELSE PySlice(embeds, 0, p) \o feats \o PyFrom(embeds, p + n)

\* the loop over graph_start_tokens: st is [err, idx, cur], the exception raised,
\* cur_graph_idx and cur_new_input_embeds (None while unbound)
RECURSIVE StartLoop(_, _, _, _, _, _, _)
StartLoop(ids, embeds, feats, endtok, protect, starts, st) ==
    IF starts = << >> \/ st.err # "" THEN st
    ELSE LET p == Head(starts)
         IN  IF st.idx >= Len(feats) THEN [st EXCEPT !.err = "IndexError"]
             ELSE LET f == feats[st.idx + 1]
                      n == Len(f)
                  IN  IF p + n + 1 >= Len(ids) THEN [st EXCEPT !.err = "IndexError"]
                      ELSE IF Some(ids[p + n + 2]) # endtok
                           THEN [st EXCEPT !.err = "MarkerSequenceInvalid"]
                      ELSE StartLoop(ids, embeds, feats, endtok, protect, Tail(starts),
                                     [err |-> "", idx |-> st.idx + 1,
                                      cur |-> Some(CatStartEnd(embeds, f, p, n, protect))])

\* the start/end branch for one sample
StartEndSample(ids, embeds, feats, cfg, protect, idx, cur) ==
    LET st0 == [err |-> "", idx |-> idx, cur |-> cur]
    IN  IF idx >= Len(feats) THEN [st0 EXCEPT !.err = "IndexError"]
        ELSE IF CountTok(ids, cfg.graph_start_token) # CountTok(ids, cfg.graph_end_token)
             THEN [st0 EXCEPT !.err = "MarkerCountMismatch"]
        ELSE LET st == StartLoop(ids, embeds, feats, cfg.graph_end_token, protect,
                                 Where(ids, cfg.graph_start_token), st0)
             IN  IF st.err = "" /\ st.cur = None
                 THEN [st EXCEPT !.err = "UnboundLocalError"]
                 ELSE st

\* variant: the PATCH positions are not checked to be consecutive
PatchSample_NoRunCheck(ids, embeds, feats, cfg, protect, idx, cur) ==
    LET st0 == [err |-> "", idx |-> idx, cur |-> cur]
    IN  IF idx >= Len(feats) THEN [st0 EXCEPT !.err = "IndexError"]
        ELSE LET f == feats[idx + 1]
                 num_patches == Len(f)
                 masked_indices == Where(ids, cfg.graph_patch_token)
             IN  IF CountTok(ids, cfg.graph_patch_token) # num_patches
                 THEN [st0 EXCEPT !.err = "MarkerCountMismatch"]
                 ELSE [err |-> "", idx |-> idx + 1,
                       cur |-> Some(CatPatch(embeds, f, masked_indices[1],
                                             num_patches, protect))]

\* the patch-only branch for one sample
PatchSample(ids, embeds, feats, cfg, protect, idx, cur) ==
    LET st0 == [err |-> "", idx |-> idx, cur |-> cur]
    IN  IF idx >= Len(feats) THEN [st0 EXCEPT !.err = "IndexError"]
        ELSE LET f == feats[idx + 1]
                 num_patches == Len(f)
                 masked_indices == Where(ids, cfg.graph_patch_token)
             IN  IF CountTok(ids, cfg.graph_patch_token) # num_patches
                 THEN [st0 EXCEPT !.err = "MarkerCountMismatch"]
                 ELSE IF masked_indices # Arange(masked_indices[1], num_patches)
                      THEN [st0 EXCEPT !.err = "MarkerNotContiguous"]
                 ELSE [err |-> "", idx |-> idx + 1,
                       cur |-> Some(CatPatch(embeds, f, masked_indices[1],
                                             num_patches, protect))]

\* torch.stack(new_input_embeds, dim=0) needs rows of one length
Stackable(rows) == \A i, j \in 1..Len(rows) : Len(rows[i]) = Len(rows[j])

(* ------------------------------ generation inputs ---------------------- *)
\* the truth value of past_key_values: None and an empty cache are false
Truthy(past) == past # None /\ past[1] # << >>

\* input_ids[:, -1:]
LastToken(ids) == [i \in 1..Len(ids) |-> PyFrom(ids[i], Len(ids[i]) - 1)]

\* variant: the ids are never cut
GenInputIds_Full(ids, past) == ids

\* if past_key_values: input_ids = input_ids[:, -1:]
GenInputIds(ids, past) == IF Truthy(past) THEN LastToken(ids) ELSE ids

\* the object None as an element of a list
NoneObject == [type |-> "NoneType", nodes |-> << >>]

\* the keyword arguments of a caller that passes none
NoKwargs ==
    [has_graph_data |-> FALSE, graph_data |-> NoneObject,
     use_cache |-> FALSE, inputs_embeds |-> None]

\* kwargs.get("graph_data", None)
KwargsGetGraphData(kwargs) ==
    IF kwargs.has_graph_data THEN kwargs.graph_data ELSE NoneObject

\* prepare_inputs_for_generation(input_ids, past_key_values, attention_mask,
\* inputs_embeds, **kwargs); the attention mask is handed on as it is
PrepareInputsForGeneration(ids, past_key_values, inputs_embeds_arg, kwargs) ==
    LET cut == GenInputIds(ids, past_key_values)
        use_embeds == inputs_embeds_arg # None /\ past_key_values = None
    IN  [input_ids |-> IF use_embeds THEN None ELSE Some(cut),
         inputs_embeds |-> IF use_embeds THEN inputs_embeds_arg ELSE None,
         past_key_values |-> past_key_values,
         use_cache |-> kwargs.use_cache,
         graph_data |-> [kind |-> "list", elems |-> << KwargsGetGraphData(kwargs) >>]]

(* ------------------------------ state ---------------------------------- *)
VARIABLES
    graph_tower,            \* whether the model has a graph tower
    training,               \* self.training
    graph_projector,        \* the projector's [weight, bias]
    tokenizer,
    use_graph_start_end,    \* graph_tower.config.*: None while the attribute is unset
    graph_patch_token,
    graph_start_token,
    graph_end_token,
    input_embeddings,       \* get_input_embeddings().weight, one scalar per row
    output_embeddings,      \* get_output_embeddings().weight
    orig_embeds_params,     \* None, or the list holding the snapshot
    in_requires_grad,
    out_requires_grad,
    reg_err,                \* the exception the last registrar call raised, "" if none
    reg_call,               \* None, or the arguments of the last registrar call
    pc,                     \* "idle", "loop", "done", "error": where forward is
    err,                    \* the exception forward raised, "" if none
    input_ids,              \* forward's arguments and locals
    inputs_embeds,
    graph_data,
    protect,                \* orig_embeds_params is not None, as read at entry
    graph_node_features,
    cur_graph_idx,
    new_input_embeds,
    cur_new_input_embeds,   \* None while the local is unbound
    cursor_at,              \* history: cur_graph_idx at the start of each sample begun
    backbone_inputs,        \* None, or the inputs_embeds given to super().forward
    gen_pc,                 \* "none", "prepare", "forward", "stopped": where generate is
    gen_ids,                \* the sequences generated so far, the prompt included
    gen_past,               \* past_key_values: None, or the cache
    gen_kwargs,             \* the caller's keyword arguments of the generation
    model_inputs,           \* None, or what prepare_inputs_for_generation returned
    gen_trace               \* history: one record per forward call of the generation

modelVars == << graph_tower, training, graph_projector, tokenizer, use_graph_start_end,
                graph_patch_token, graph_start_token, graph_end_token,
                input_embeddings, output_embeddings, orig_embeds_params,
                in_requires_grad, out_requires_grad, reg_err, reg_call >>

callVars == << pc, err, input_ids, inputs_embeds, graph_data, protect,
               graph_node_features, cur_graph_idx, new_input_embeds,
               cur_new_input_embeds, cursor_at, backbone_inputs >>

genVars == << gen_pc, gen_ids, gen_past, gen_kwargs, model_inputs, gen_trace >>

vars == << modelVars, callVars, genVars >>

\* the registrar's view of the state
ModelRec ==
    [tokenizer |-> tokenizer,
     use_graph_start_end |-> use_graph_start_end,
     graph_patch_token |-> graph_patch_token,
     graph_start_token |-> graph_start_token,
     graph_end_token |-> graph_end_token,
     input_embeddings |-> input_embeddings,
     output_embeddings |-> output_embeddings,
     orig_embeds_params |-> orig_embeds_params,
     in_requires_grad |-> in_requires_grad,
     out_requires_grad |-> out_requires_grad,
     err |-> reg_err,
     call |-> reg_call]

Cfg ==
    [graph_patch_token |-> graph_patch_token,
     graph_start_token |-> graph_start_token,
     graph_end_token |-> graph_end_token]

(* ------------------------------ inputs --------------------------------- *)
\* the token ids a caller puts in a sequence: the first text token and the
\* marker tokens of the configured mode
InputTokens ==
    {0} \cup {t[1] : t \in {graph_patch_token} \ {None}}
        \cup (IF use_graph_start_end = Some(TRUE)
              THEN {t[1] : t \in {graph_start_token, graph_end_token} \ {None}}
              ELSE {})

\* batches of B sequences of one length L, B * L <= budget
Batches(budget) ==
    UNION {[1..B -> [1..L -> InputTokens]] :
             << B, L >> \in {x \in (1..MaxBatch) \X (1..budget) : x[1] * x[2] <= budget}}

DataElems == {[type |-> "Data", nodes |-> << n >>] : n \in 1..MaxNodes}
DictElems == {[type |-> "dict", nodes |-> << n1, n2 >>] : n1, n2 \in 1..MaxNodes}

\* graph_data: None, a single Data object (not a list), a list of Data, a list
\* of dicts of two graphs
GraphDataInputs(sets) ==
    {[kind |-> "None", elems |-> << >>], [kind |-> "Data", elems |-> << >>]}
    \cup {[kind |-> "list", elems |-> e] :
            e \in UNION {[1..k -> DataElems] : k \in 0..sets}}
    \cup {[kind |-> "list", elems |-> e] :
            e \in UNION {[1..k -> DictElems] : k \in 1..(sets \div 2)}}

(* ------------------------------ initial states ------------------------- *)
CallIdle ==
    /\ pc = "idle"
    /\ err = ""
    /\ input_ids = << >>
    /\ inputs_embeds = << >>
    /\ graph_data = [kind |-> "None", elems |-> << >>]
    /\ protect = FALSE
    /\ graph_node_features = << >>
    /\ cur_graph_idx = 0
    /\ new_input_embeds = << >>
    /\ cur_new_input_embeds = None
    /\ cursor_at = << >>
    /\ backbone_inputs = None

\* no generation under way
GenIdle ==
    /\ gen_pc = "none"
    /\ gen_ids = << >>
    /\ gen_past = None
    /\ gen_kwargs = NoKwargs
    /\ model_inputs = None
    /\ gen_trace = << >>

ModelIs(m) ==
    /\ tokenizer = m.tokenizer
    /\ use_graph_start_end = m.use_graph_start_end
    /\ graph_patch_token = m.graph_patch_token
    /\ graph_start_token = m.graph_start_token
    /\ graph_end_token = m.graph_end_token
    /\ input_embeddings = m.input_embeddings
    /\ output_embeddings = m.output_embeddings
    /\ orig_embeds_params = m.orig_embeds_params
    /\ in_requires_grad = m.in_requires_grad
    /\ out_requires_grad = m.out_requires_grad
    /\ reg_err = m.err
    /\ reg_call = m.call

\* the models the registrar leaves behind: one call in either mode, with or
\* without adapter tuning, and a start/end registration with adapter tuning
\* followed by a patch-only one
SetupModels ==
    LET Reg(m, se, tune) == InitializeGraphTokenizer(m, se, tune, None, 0, 0)
    IN  {Reg(FreshModel, se, tune) : se, tune \in BOOLEAN}
        \cup {Reg(Reg(FreshModel, TRUE, TRUE), FALSE, FALSE)}

\* a model with its markers registered, in eval mode, before any forward call
Init ==
    /\ graph_tower = TRUE
    /\ training = FALSE
    /\ graph_projector = [weight |-> 1, bias |-> 100]
    /\ \E m \in SetupModels : ModelIs(m)
    /\ CallIdle
    /\ GenIdle

\* a model right after construction, no marker registered
InitReg ==
    /\ graph_tower \in BOOLEAN
    /\ training \in BOOLEAN
    /\ graph_projector = [weight |-> 1, bias |-> 100]
    /\ ModelIs(FreshModel)
    /\ CallIdle
    /\ GenIdle

(* ------------------------------ registrar action ----------------------- *)
\* initialize_graph_tokenizer(use_graph_start_end, tokenizer, device,
\*                            tune_graph_mlp_adapter, pretrain_graph_mlp_adapter)
Register ==
    /\ pc = "idle"
    /\ \E use_se, tune \in BOOLEAN, rnd_in, rnd_out \in RandVals :
       \E ckpt \in Checkpoints(TokLen(tokenizer)) :
          IF graph_tower
          THEN LET m == InitializeGraphTokenizer(ModelRec, use_se, tune, ckpt,
                                                 rnd_in, rnd_out)
               IN  /\ tokenizer' = m.tokenizer
                   /\ use_graph_start_end' = m.use_graph_start_end
                   /\ graph_patch_token' = m.graph_patch_token
                   /\ graph_start_token' = m.graph_start_token
                   /\ graph_end_token' = m.graph_end_token
                   /\ input_embeddings' = m.input_embeddings
                   /\ output_embeddings' = m.output_embeddings
                   /\ orig_embeds_params' = m.orig_embeds_params
                   /\ in_requires_grad' = m.in_requires_grad
                   /\ out_requires_grad' = m.out_requires_grad
                   /\ reg_err' = m.err
                   /\ reg_call' = m.call
          ELSE /\ reg_err' = "AttributeError"
               /\ reg_call' = Some([use_graph_start_end |-> use_se,
                                    tune_graph_mlp_adapter |-> tune,
                                    pretrain_graph_mlp_adapter |-> (ckpt # None)])
               /\ UNCHANGED << tokenizer, use_graph_start_end, graph_patch_token,
                               graph_start_token, graph_end_token, input_embeddings,
                               output_embeddings, orig_embeds_params,
                               in_requires_grad, out_requires_grad >>
    /\ UNCHANGED << graph_tower, training, graph_projector, callVars, genVars >>

(* ------------------------------ forward -------------------------------- *)
\* variant: the length of the input and the training flag are not looked at
Splices_AnyLength(ids, gd) ==
    graph_tower /\ gd.kind # "None"

\* the condition under which forward splices
Splices(ids, gd) ==
    graph_tower /\ (Len(ids[1]) # 1 \/ training) /\ gd.kind # "None"

\* entry of forward: what every call does before the branch on graph data
Enter(ids, gd) ==
    /\ input_ids' = ids
    /\ graph_data' = gd
    /\ protect' = (orig_embeds_params # None)
    /\ inputs_embeds' =
          [i \in 1..Len(ids) |-> EmbedTokens(input_embeddings, in_requires_grad, ids[i])]
    /\ UNCHANGED << modelVars, genVars, cur_new_input_embeds, cursor_at >>

\* no splice: the token embeddings go to the decoder backbone as they are
BypassOn(ids, gd) ==
    /\ ~Splices(ids, gd)
    /\ Enter(ids, gd)
    /\ pc' = "done"
    /\ backbone_inputs' = Some(inputs_embeds')
    /\ UNCHANGED << err, graph_node_features, cur_graph_idx, new_input_embeds >>

\* graph_data is no list, or an empty one
BadGraphDataOn(ids, gd) ==
    /\ Splices(ids, gd)
    /\ gd.kind # "list" \/ gd.elems = << >>
    /\ Enter(ids, gd)
    /\ pc' = "error"
    /\ err' = IF gd.kind # "list" THEN "InputTypeInvalid" ELSE "IndexError"
    /\ UNCHANGED << backbone_inputs, graph_node_features, cur_graph_idx,
                    new_input_embeds >>

\* the graphs are encoded and projected, the loop over the samples starts
SpliceOn(ids, gd) ==
    /\ Splices(ids, gd)
    /\ gd.kind = "list" /\ gd.elems # << >>
    /\ Enter(ids, gd)
    /\ pc' = "loop"
    /\ graph_node_features' = GraphNodeFeatures(graph_projector, gd)
    /\ new_input_embeds' = << >>
    /\ cur_graph_idx' = 0
    /\ UNCHANGED << err, backbone_inputs >>

\* a forward call of a caller outside generation, on arguments of its choice
ForwardBypass(budget, sets) ==
    /\ pc = "idle"
    /\ \E ids \in Batches(budget), gd \in GraphDataInputs(sets) : BypassOn(ids, gd)

ForwardBadGraphData(budget, sets) ==
    /\ pc = "idle"
    /\ \E ids \in Batches(budget), gd \in GraphDataInputs(sets) : BadGraphDataOn(ids, gd)

ForwardSplice(budget, sets) ==
    /\ pc = "idle"
    /\ \E ids \in Batches(budget), gd \in GraphDataInputs(sets) : SpliceOn(ids, gd)

\* the sample the loop is at
CurSample == Len(new_input_embeds) + 1
InLoop == pc = "loop" /\ CurSample <= Len(input_ids)

\* the end of one iteration: the exception, or the row appended
EndIteration(st) ==
    /\ IF st.err # ""
       THEN /\ pc' = "error"
            /\ err' = st.err
            /\ UNCHANGED << new_input_embeds, cur_new_input_embeds >>
       ELSE /\ new_input_embeds' = Append(new_input_embeds, st.cur[1])
            /\ cur_new_input_embeds' = st.cur
            /\ UNCHANGED << pc, err >>
    /\ cur_graph_idx' = st.idx
    /\ cursor_at' = Append(cursor_at, cur_graph_idx)
    /\ UNCHANGED << modelVars, genVars, input_ids, inputs_embeds, graph_data,
                    protect, graph_node_features, backbone_inputs >>

\* graph_tower.config has no graph_patch_token: the registrar never completed
ConfigMissingStep ==
    /\ InLoop
    /\ graph_patch_token = None
    /\ pc' = "error"
    /\ err' = "AttributeError"
    /\ UNCHANGED << modelVars, genVars, input_ids, inputs_embeds, graph_data,
                    protect, graph_node_features, cur_graph_idx, new_input_embeds,
                    cur_new_input_embeds, cursor_at, backbone_inputs >>

\* a sample without PATCH token: its row, and cur_graph_idx += 1
TextOnlyRow(embeds, proj) == AddDummy(embeds, proj)

\* variant: a text-only sample leaves the cursor where it is
TextOnlyAdvance_None(idx) == idx

TextOnlyAdvance(idx) == idx + 1

TextOnlyStep ==
    /\ InLoop
    /\ graph_patch_token # None
    /\ CountTok(input_ids[CurSample], graph_patch_token) = 0
    /\ new_input_embeds' =
          Append(new_input_embeds, TextOnlyRow(inputs_embeds[CurSample], graph_projector))
    /\ cur_graph_idx' = TextOnlyAdvance(cur_graph_idx)
    /\ cursor_at' = Append(cursor_at, cur_graph_idx)
    /\ UNCHANGED << modelVars, genVars, pc, err, input_ids, inputs_embeds,
                    graph_data, protect, graph_node_features, cur_new_input_embeds,
                    backbone_inputs >>

StartEndStep ==
    /\ InLoop
    /\ graph_patch_token # None
    /\ CountTok(input_ids[CurSample], graph_patch_token) # 0
    /\ use_graph_start_end = Some(TRUE)
    /\ EndIteration(StartEndSample(input_ids[CurSample], inputs_embeds[CurSample],
                                   graph_node_features, Cfg, protect,
                                   cur_graph_idx, cur_new_input_embeds))

PatchOnlyStep ==
    /\ InLoop
    /\ graph_patch_token # None
    /\ CountTok(input_ids[CurSample], graph_patch_token) # 0
    /\ use_graph_start_end # Some(TRUE)
    /\ EndIteration(PatchSample(input_ids[CurSample], inputs_embeds[CurSample],
                                graph_node_features, Cfg, protect,
                                cur_graph_idx, cur_new_input_embeds))

\* variant: feature sets left over are accepted
CardinalityOk_AtMost(idx, feats) == idx <= Len(feats)

\* assert cur_graph_idx == len(graph_node_features)
CardinalityOk(idx, feats) == idx = Len(feats)

\* after the loop: the assertion, the stack, the call of the decoder backbone
Finish ==
    /\ pc = "loop"
    /\ CurSample > Len(input_ids)
    /\ IF ~CardinalityOk(cur_graph_idx, graph_node_features)
       THEN /\ pc' = "error"
            /\ err' = "GraphFeatureCardinalityMismatch"
            /\ UNCHANGED backbone_inputs
       ELSE IF ~Stackable(new_input_embeds)
       THEN /\ pc' = "error"
            /\ err' = "RuntimeError"
            /\ UNCHANGED backbone_inputs
       ELSE /\ pc' = "done"
            /\ backbone_inputs' = Some(new_input_embeds)
            /\ UNCHANGED err
    /\ UNCHANGED << modelVars, genVars, input_ids, inputs_embeds, graph_data,
                    protect, graph_node_features, cur_graph_idx, new_input_embeds,
                    cur_new_input_embeds, cursor_at >>

\* forward has returned or raised: its locals are gone
Return ==
    /\ pc \in {"done", "error"}
    /\ pc' = "idle"
    /\ err' = ""
    /\ input_ids' = << >>
    /\ inputs_embeds' = << >>
    /\ graph_data' = [kind |-> "None", elems |-> << >>]
    /\ protect' = FALSE
    /\ graph_node_features' = << >>
    /\ cur_graph_idx' = 0
    /\ new_input_embeds' = << >>
    /\ cur_new_input_embeds' = None
    /\ cursor_at' = << >>
    /\ backbone_inputs' = None
    /\ UNCHANGED << modelVars, genVars >>

SpliceSteps ==
    \/ TextOnlyStep
    \/ StartEndStep
    \/ PatchOnlyStep
    \/ Finish
    \/ Return

Next ==
    \/ ForwardBypass(MaxTokens, MaxSets)
    \/ ForwardBadGraphData(MaxTokens, MaxSets)
    \/ ForwardSplice(MaxTokens, MaxSets)
    \/ SpliceSteps

Spec == Init /\ [][Next]_vars

NextReg ==
    \/ Register
    \/ ForwardBypass(RegTokens, RegSets)
    \/ ForwardBadGraphData(RegTokens, RegSets)
    \/ ForwardSplice(RegTokens, RegSets)
    \/ ConfigMissingStep
    \/ SpliceSteps

SpecReg == InitReg /\ [][NextReg]_vars

(* ------------------------------ generation ----------------------------- *)
\* what a caller passes as graph_data to generate: None, one Data object, or a
\* list holding one Data object
GenGraphObjects ==
    {NoneObject} \cup DataElems
        \cup {[type |-> "list", nodes |-> << n >>] : n \in 1..MaxNodes}

\* embeddings a caller passes for the prompt ids
CallerEmbeds(ids) ==
    [i \in 1..Len(ids) |-> [j \in 1..Len(ids[i]) |-> [v |-> 0 - j, grad |-> FALSE]]]

\* the past_key_values a caller starts with: none, an empty cache, a cache of
\* all positions but the last
StartPasts(ids) == {None, Some(<< >>), Some(<< Len(ids[1]) - 1 >>)}

\* a model as generation finds it: with a graph tower, after one registrar call
InitGen ==
    /\ graph_tower \in BOOLEAN
    /\ training \in BOOLEAN
    /\ graph_projector = [weight |-> 1, bias |-> 100]
    /\ IF graph_tower
       THEN \E use_se \in BOOLEAN :
               ModelIs(InitializeGraphTokenizer(FreshModel, use_se, FALSE, None, 0, 0))
       ELSE ModelIs(FreshModel)
    /\ CallIdle
    /\ GenIdle

\* generate(input_ids, **kwargs) starts
GenStart ==
    /\ pc = "idle"
    /\ gen_pc = "none"
    /\ \E ids \in Batches(GenTokens), obj \in GenGraphObjects,
          has, use_cache, with_embeds \in BOOLEAN :
       \E past \in StartPasts(ids) :
           /\ has \/ obj = NoneObject
           /\ gen_ids' = ids
           /\ gen_past' = past
           /\ gen_kwargs' = [has_graph_data |-> has,
                             graph_data |-> obj,
                             use_cache |-> use_cache,
                             inputs_embeds |-> IF with_embeds THEN Some(CallerEmbeds(ids))
                                               ELSE None]
    /\ gen_pc' = "prepare"
    /\ UNCHANGED << modelVars, callVars, model_inputs, gen_trace >>

\* one call of prepare_inputs_for_generation
GenPrepare ==
    /\ pc = "idle"
    /\ gen_pc = "prepare"
    /\ model_inputs' = Some(PrepareInputsForGeneration(gen_ids, gen_past,
                                                       gen_kwargs.inputs_embeds,
                                                       gen_kwargs))
    /\ gen_pc' = "forward"
    /\ UNCHANGED << modelVars, callVars, gen_ids, gen_past, gen_kwargs, gen_trace >>

\* self(**model_inputs) with input_ids
GenForwardBypass ==
    /\ pc = "idle"
    /\ gen_pc = "forward"
    /\ model_inputs[1].input_ids # None
    /\ BypassOn(model_inputs[1].input_ids[1], model_inputs[1].graph_data)

GenForwardSplice ==
    /\ pc = "idle"
    /\ gen_pc = "forward"
    /\ model_inputs[1].input_ids # None
    /\ SpliceOn(model_inputs[1].input_ids[1], model_inputs[1].graph_data)

\* self(**model_inputs) with inputs_embeds and no input_ids: with a graph tower
\* the splice condition reads input_ids.shape of None
GenForwardEmbeds ==
    /\ pc = "idle"
    /\ gen_pc = "forward"
    /\ model_inputs[1].input_ids = None
    /\ input_ids' = << >>
    /\ inputs_embeds' = model_inputs[1].inputs_embeds[1]
    /\ graph_data' = model_inputs[1].graph_data
    /\ protect' = (orig_embeds_params # None)
    /\ IF graph_tower
       THEN /\ pc' = "error"
            /\ err' = "AttributeError"
            /\ UNCHANGED backbone_inputs
       ELSE /\ pc' = "done"
            /\ backbone_inputs' = Some(inputs_embeds')
            /\ UNCHANGED err
    /\ UNCHANGED << modelVars, genVars, graph_node_features, cur_graph_idx,
                    new_input_embeds, cur_new_input_embeds, cursor_at >>

\* the forward call under way took the splice branch
SpliceRan ==
    \/ pc = "loop"
    \/ pc = "done" /\ new_input_embeds # << >>
    \/ pc = "error" /\ input_ids # << >>

\* what the generation loop sees of one forward call
StepRecord ==
    [cached |-> Truthy(gen_past),
     fed |-> IF input_ids = << >> THEN 0 ELSE Len(input_ids[1]),
     spliced |-> SpliceRan,
     encoded |-> Len(graph_node_features),
     unchanged |-> backbone_inputs = Some(inputs_embeds),
     err |-> err]

\* forward has returned or raised: the exception ends the generation, the
\* result gives the next token and the cache
GenAdvance ==
    /\ pc \in {"done", "error"}
    /\ gen_pc = "forward"
    /\ gen_trace' = Append(gen_trace, StepRecord)
    /\ IF pc = "error" \/ Len(gen_trace) + 1 >= MaxGenSteps
       THEN /\ gen_pc' = "stopped"
            /\ UNCHANGED << gen_ids, gen_past >>
       ELSE /\ gen_pc' = "prepare"
            /\ \E t \in InputTokens :
                  gen_ids' = [i \in 1..Len(gen_ids) |-> Append(gen_ids[i], t)]
            /\ gen_past' = IF model_inputs[1].use_cache
                           THEN Some(<< Len(gen_ids[1]) >>)
                           ELSE None
    /\ model_inputs' = None
    /\ pc' = "idle"
    /\ err' = ""
    /\ input_ids' = << >>
    /\ inputs_embeds' = << >>
    /\ graph_data' = [kind |-> "None", elems |-> << >>]
    /\ protect' = FALSE
    /\ graph_node_features' = << >>
    /\ cur_graph_idx' = 0
    /\ new_input_embeds' = << >>
    /\ cur_new_input_embeds' = None
    /\ cursor_at' = << >>
    /\ backbone_inputs' = None
    /\ UNCHANGED << modelVars, gen_kwargs >>

\* forward called by a caller outside generation, while no generation runs
DirectBypass == gen_pc = "none" /\ ForwardBypass(GenTokens, RegSets)
DirectBadGraphData == gen_pc = "none" /\ ForwardBadGraphData(GenTokens, RegSets)
DirectSplice == gen_pc = "none" /\ ForwardSplice(GenTokens, RegSets)
DirectReturn == gen_pc = "none" /\ Return

NextGen ==
    \/ DirectBypass
    \/ DirectBadGraphData
    \/ DirectSplice
    \/ DirectReturn
    \/ GenStart
    \/ GenPrepare
    \/ GenForwardBypass
    \/ GenForwardSplice
    \/ GenForwardEmbeds
    \/ TextOnlyStep
    \/ StartEndStep
    \/ PatchOnlyStep
    \/ Finish
    \/ GenAdvance

SpecGen == InitGen /\ [][NextGen]_vars

(* ------------------------------ vocabulary of the properties ----------- *)
Spliced == graph_node_features # << >>
PatchOnlyMode == use_graph_start_end = Some(FALSE)
StartEndMode == use_graph_start_end = Some(TRUE)
BatchSize == Len(input_ids)
Processed == 1..Len(new_input_embeds)

PatchPositions(i) == Where(input_ids[i], graph_patch_token)
StartPositions(i) == Where(input_ids[i], graph_start_token)
EndPositions(i) == Where(input_ids[i], graph_end_token)
IsTextOnly(i) == PatchPositions(i) = << >>

\* pos is the run pos[1], pos[1] + 1, ...
IsRun(pos) == \A k \in 1..Len(pos) : pos[k] = pos[1] + k - 1

\* the sample the loop failed on
FailedSample == Len(new_input_embeds) + 1
SampleFailed == Spliced /\ pc = "error" /\ FailedSample <= BatchSize

\* row holds the features f at the 0-based positions first .. first + Len(f) - 1
\* and the values of embeds elsewhere
HoldsSpan(row, embeds, first, f) ==
    /\ Len(row) = Len(embeds)
    /\ \A j \in 1..Len(row) :
          row[j].v = IF first < j /\ j <= first + Len(f)
                     THEN f[j - first].v
                     ELSE embeds[j].v

\* the patch run of sample i matches the feature set at the 0-based place c
PatchRunMatches(i, c) ==
    /\ ~IsTextOnly(i)
    /\ c < Len(graph_node_features)
    /\ Len(PatchPositions(i)) = Len(graph_node_features[c + 1])
    /\ IsRun(PatchPositions(i))

(* ------------------------------ C1 -------------------------------------- *)
\* C1: patch-only mode: a processed sample whose PATCH positions are one
\* contiguous run as long as the feature set it consumes has, in its merged row,
\* that feature set in order at the run and its own input embedding at every
\* other position, protect-original snapshot set or not.
C1_PatchSpanReplaced ==
    PatchOnlyMode =>
        \A i \in Processed :
            PatchRunMatches(i, cursor_at[i]) =>
                HoldsSpan(new_input_embeds[i], inputs_embeds[i], PatchPositions(i)[1],
                          graph_node_features[cursor_at[i] + 1])

C1_Witness ==
    /\ PatchOnlyMode /\ pc = "done" /\ protect
    /\ \E i \in Processed :
          /\ PatchRunMatches(i, cursor_at[i])
          /\ Len(PatchPositions(i)) = 2
          /\ PatchPositions(i)[1] > 0
          /\ PatchPositions(i)[1] + 2 < Len(input_ids[i])

(* ------------------------------ C2 -------------------------------------- *)
\* the k regions of sample i, the r-th consuming the feature set at place c + r - 1
RegionSet(i, c, r) == graph_node_features[c + r]

\* sample i is a well-formed start/end sample: k >= 1 regions, the r-th with
\* START at p, PATCH at p+1..p+n, END at p+n+1, and no marker outside the regions
WellBracketed(i, c) ==
    LET starts == StartPositions(i)
        k == Len(starts)
        ids == input_ids[i]
    IN  /\ k >= 1
        /\ c + k <= Len(graph_node_features)
        /\ Len(EndPositions(i)) = k
        /\ \A r \in 1..k :
              LET p == starts[r]
                  n == Len(RegionSet(i, c, r))
              IN  /\ p + n + 1 < Len(ids)
                  /\ Some(ids[p + n + 2]) = graph_end_token
                  /\ \A q \in (p + 1)..(p + n) : Some(ids[q + 1]) = graph_patch_token
                  /\ r < k => p + n + 1 < starts[r + 1]
        /\ Len(PatchPositions(i)) >= 1
        /\ \A q \in 0..(Len(ids) - 1) :
              Some(ids[q + 1]) = graph_patch_token =>
                  \E r \in 1..k : starts[r] < q /\ q <= starts[r] + Len(RegionSet(i, c, r))

\* the value the claim puts at the 0-based position q of the merged row
ExpectedStartEnd(i, c, q) ==
    LET starts == StartPositions(i)
        inside == {r \in 1..Len(starts) :
                     starts[r] < q /\ q <= starts[r] + Len(RegionSet(i, c, r))}
    IN  IF inside = {} THEN inputs_embeds[i][q + 1].v
        ELSE LET r == CHOOSE x \in inside : TRUE
             IN  RegionSet(i, c, r)[q - starts[r]].v

\* C2: start/end mode: a processed sample with k >= 1 correctly bracketed regions
\* holds the r-th consumed feature set at the positions of the r-th region, in
\* ascending START order, and its input embedding everywhere else.
C2_AllRegionsSpliced ==
    StartEndMode =>
        \A i \in Processed :
            WellBracketed(i, cursor_at[i]) =>
                /\ Len(new_input_embeds[i]) = Len(input_ids[i])
                /\ \A q \in 0..(Len(input_ids[i]) - 1) :
                      new_input_embeds[i][q + 1].v = ExpectedStartEnd(i, cursor_at[i], q)

\* the same for the samples of exactly one region
C2_OneRegionSpliced ==
    StartEndMode =>
        \A i \in Processed :
            (WellBracketed(i, cursor_at[i]) /\ Len(StartPositions(i)) = 1) =>
                /\ Len(new_input_embeds[i]) = Len(input_ids[i])
                /\ \A q \in 0..(Len(input_ids[i]) - 1) :
                      new_input_embeds[i][q + 1].v = ExpectedStartEnd(i, cursor_at[i], q)

(* ------------------------------ C3 -------------------------------------- *)
GraphSamples == {i \in 1..BatchSize : ~IsTextOnly(i)}
TextSamples == {i \in 1..BatchSize : IsTextOnly(i)}

\* a patch-only call on a batch of graph and text-only samples
MixedPatchBatch ==
    /\ PatchOnlyMode /\ Spliced
    /\ GraphSamples # {} /\ TextSamples # {}

\* the number of graph samples before sample i
GraphRank(i) == Cardinality({j \in GraphSamples : j < i})

\* C3 as stated: one feature set per graph sample and none for the text-only
\* ones, the k-th graph sample matching the k-th set: the splice does not fail.
C3_OneSetPerGraphSample ==
    ( /\ MixedPatchBatch
      /\ Len(graph_node_features) = Cardinality(GraphSamples)
      /\ \A i \in GraphSamples : PatchRunMatches(i, GraphRank(i)) )
    => pc # "error"

\* C3 amended: one feature set per sample of the batch, text-only samples
\* included, the set at the place of a graph sample matching its PATCH run: the
\* splice does not fail, a graph sample's run holds the set at its own place, a
\* text-only sample is unchanged, and the sets consumed are the sets supplied.
C3_OneSetPerSample ==
    ( /\ MixedPatchBatch
      /\ Len(graph_node_features) = BatchSize
      /\ \A i \in GraphSamples : PatchRunMatches(i, i - 1) )
    => /\ pc # "error"
       /\ \A i \in Processed :
             IF IsTextOnly(i)
             THEN Values(new_input_embeds[i]) = Values(inputs_embeds[i])
             ELSE HoldsSpan(new_input_embeds[i], inputs_embeds[i], PatchPositions(i)[1],
                            graph_node_features[i])
       /\ pc = "done" => /\ cur_graph_idx = Len(graph_node_features)
                         /\ backbone_inputs = Some(new_input_embeds)
                         /\ Len(new_input_embeds) = BatchSize

C3_Witness ==
    /\ MixedPatchBatch
    /\ Len(graph_node_features) = BatchSize
    /\ \A i \in GraphSamples : PatchRunMatches(i, i - 1)
    /\ pc = "done"
    /\ 1 \in GraphSamples /\ 2 \in TextSamples

(* ------------------------------ C4 -------------------------------------- *)
\* what the claim lets sample i add to the cursor
ClaimedAdvance(i) ==
    IF IsTextOnly(i) THEN 1
    ELSE IF PatchOnlyMode THEN 1
    ELSE Len(StartPositions(i))

\* the loop is over: every sample has its row
LoopOver == Spliced /\ pc \in {"done", "error"} /\ Len(new_input_embeds) = BatchSize

\* C4: the cursor starts at 0, every processed sample advances it by 1 (text-only,
\* patch-only) or by its number of START markers (start/end); once the loop is
\* over the call fails, with the cardinality error, exactly when the cursor
\* differs from the number of feature sets, and then nothing reaches the backbone.
C4_CursorCardinality ==
    Spliced =>
        /\ cursor_at # << >> => cursor_at[1] = 0
        /\ cursor_at = << >> => cur_graph_idx = 0
        /\ \A i \in Processed :
              /\ i < Len(cursor_at) => cursor_at[i + 1] = cursor_at[i] + ClaimedAdvance(i)
              /\ i = Len(cursor_at) => cur_graph_idx = cursor_at[i] + ClaimedAdvance(i)
        /\ LoopOver =>
              /\ (pc = "error") <=> (cur_graph_idx # Len(graph_node_features))
              /\ pc = "error" => /\ err = "GraphFeatureCardinalityMismatch"
                                 /\ backbone_inputs = None
              /\ pc = "done" => backbone_inputs = Some(new_input_embeds)

C4_Witness ==
    /\ LoopOver /\ StartEndMode
    /\ err = "GraphFeatureCardinalityMismatch"
    /\ BatchSize = 2
    /\ \E i \in Processed : IsTextOnly(i)
    /\ \E i \in Processed : ~IsTextOnly(i) /\ Len(StartPositions(i)) = 1

(* ------------------------------ C5 -------------------------------------- *)
\* C5: a processed sample without PATCH token has, in either mode, a merged row
\* whose values are its input embeddings.
C5_TextOnlyUnchanged ==
    Spliced =>
        \A i \in Processed :
            IsTextOnly(i) => Values(new_input_embeds[i]) = Values(inputs_embeds[i])

C5_Witness ==
    /\ Spliced /\ pc = "done" /\ StartEndMode
    /\ \E i \in Processed : IsTextOnly(i) /\ Len(input_ids[i]) >= 2
    /\ \E i \in Processed : ~IsTextOnly(i)

(* ------------------------------ C6 -------------------------------------- *)
\* C6: every merged row is as long as its sample's input sequence, in both modes,
\* protect-original or not, so the stack never fails on unequal rows.
C6_LengthPreserved ==
    /\ \A i \in Processed : Len(new_input_embeds[i]) = Len(input_ids[i])
    /\ err # "RuntimeError"
    /\ (Spliced /\ pc = "done") =>
          \A i \in 1..BatchSize : Len(backbone_inputs[1][i]) = Len(input_ids[i])

C6_Witness ==
    /\ Spliced /\ pc = "done" /\ StartEndMode /\ protect
    /\ \E i \in Processed : WellBracketed(i, cursor_at[i]) /\ Len(StartPositions(i)) = 2

(* ------------------------------ C7 -------------------------------------- *)
\* C7: patch-only mode, a sample with a PATCH token whose feature set has n
\* vectors: it fails with MarkerCountMismatch when its PATCH count is not n, with
\* MarkerNotContiguous when the count is n and the positions are no run, and is
\* processed otherwise; a failed call hands nothing to the backbone.
C7_PatchValidation ==
    (PatchOnlyMode /\ Spliced) =>
        /\ \A i \in Processed : ~IsTextOnly(i) => PatchRunMatches(i, cursor_at[i])
        /\ ( /\ SampleFailed
             /\ ~IsTextOnly(FailedSample)
             /\ cur_graph_idx < Len(graph_node_features) ) =>
              LET pos == PatchPositions(FailedSample)
                  n == Len(graph_node_features[cur_graph_idx + 1])
              IN  /\ Len(pos) # n => err = "MarkerCountMismatch"
                  /\ (Len(pos) = n /\ ~IsRun(pos)) => err = "MarkerNotContiguous"
                  /\ ~(Len(pos) = n /\ IsRun(pos))
        /\ pc = "error" => backbone_inputs = None

C7_Witness ==
    /\ PatchOnlyMode /\ SampleFailed
    /\ err = "MarkerNotContiguous"
    /\ Len(PatchPositions(FailedSample)) = 2

(* ------------------------------ C8 -------------------------------------- *)
\* C8: start/end mode, a sample with PATCH tokens: it fails with the count error
\* when its START and END counts differ, and with MarkerSequenceInvalid when, for
\* the START at p consuming a set of n vectors, position p+n+1 does not hold the
\* END marker, also when p+n+1 is past the end; a failed call hands nothing to
\* the backbone.
C8_StartEndValidation ==
    (StartEndMode /\ Spliced) =>
        /\ \A i \in Processed :
              ~IsTextOnly(i) => Len(StartPositions(i)) = Len(EndPositions(i))
        /\ ( /\ SampleFailed
             /\ ~IsTextOnly(FailedSample)
             /\ cur_graph_idx < Len(graph_node_features) ) =>
              LET starts == StartPositions(FailedSample)
                  ids == input_ids[FailedSample]
                  r == cur_graph_idx - cursor_at[FailedSample] + 1
                  n == Len(graph_node_features[cur_graph_idx + 1])
              IN  /\ Len(starts) # Len(EndPositions(FailedSample))
                        => err = "MarkerCountMismatch"
                  /\ ( /\ Len(starts) = Len(EndPositions(FailedSample))
                       /\ r <= Len(starts)
                       /\ \/ starts[r] + n + 1 >= Len(ids)
                          \/ Some(ids[starts[r] + n + 2]) # graph_end_token )
                        => err = "MarkerSequenceInvalid"
        /\ pc = "error" => backbone_inputs = None

\* the same, a START whose END would lie past the end of the sequence left out
C8_InRangeValidation ==
    (StartEndMode /\ Spliced) =>
        /\ \A i \in Processed :
              ~IsTextOnly(i) => Len(StartPositions(i)) = Len(EndPositions(i))
        /\ ( /\ SampleFailed
             /\ ~IsTextOnly(FailedSample)
             /\ cur_graph_idx < Len(graph_node_features) ) =>
              LET starts == StartPositions(FailedSample)
                  ids == input_ids[FailedSample]
                  r == cur_graph_idx - cursor_at[FailedSample] + 1
                  n == Len(graph_node_features[cur_graph_idx + 1])
              IN  /\ Len(starts) # Len(EndPositions(FailedSample))
                        => err = "MarkerCountMismatch"
                  /\ ( /\ Len(starts) = Len(EndPositions(FailedSample))
                       /\ r <= Len(starts)
                       /\ starts[r] + n + 1 < Len(ids)
                       /\ Some(ids[starts[r] + n + 2]) # graph_end_token )
                        => err = "MarkerSequenceInvalid"
        /\ pc = "error" => backbone_inputs = None

(* ------------------------------ C9 -------------------------------------- *)
\* a step of the registrar: the only step that starts and ends outside forward
RegStep == pc = "idle" /\ pc' = "idle" /\ reg_call' # None

\* every row the step appended to table is the mean of the rows of table
NewRowsAreMean(table, table2) ==
    \A j \in (Len(table) + 1)..Len(table2) :
        table2[j] * Len(table) = SumSeq(table)

\* C9: a registrar call on a fresh tokenizer, without checkpoint, leaves every
\* row it appended to the input table, and to the output table, equal to the
\* mean of the rows the table had before the call.
C9_NewRowsMeanOfOld ==
    [][ ( /\ RegStep
          /\ graph_tower
          /\ tokenizer.added = << >>
          /\ reg_err' = ""
          /\ ~reg_call'[1].pretrain_graph_mlp_adapter )
        => /\ Len(input_embeddings') > Len(input_embeddings)
           /\ NewRowsAreMean(input_embeddings, input_embeddings')
           /\ NewRowsAreMean(output_embeddings, output_embeddings') ]_vars

(* ------------------------------ C10 ------------------------------------- *)
\* the snapshot is the input table as the call left it, but for the two marker
\* rows a checkpoint overwrote after the snapshot was taken
SnapshotOfTable(snap, table, loaded) ==
    /\ snap # None
    /\ Len(snap[1]) = Len(table)
    /\ PyDropLast(snap[1], 2) = PyDropLast(table, 2)
    /\ ~loaded => snap[1] = table

\* C10 as stated: a registrar call with the adapter-tuning flag, in either mode,
\* stores the snapshot and sets the requires_grad flags.
C10_TuneInEitherMode ==
    [][ ( /\ RegStep
          /\ graph_tower
          /\ reg_err' = ""
          /\ reg_call'[1].tune_graph_mlp_adapter )
        => /\ orig_embeds_params' # None
           /\ in_requires_grad'
           /\ ~out_requires_grad' ]_vars

\* C10 amended: a registrar call with the adapter-tuning flag and
\* use_graph_start_end true stores the snapshot of the input table, makes the
\* input embeddings trainable and freezes the output embeddings; with
\* use_graph_start_end false the flag changes none of the three; a snapshot once
\* stored stays, and every forward call entered while it is stored runs in
\* protect-original mode.
C10_TuneInStartEndMode ==
    [][ /\ ( /\ RegStep
             /\ graph_tower
             /\ reg_call'[1].tune_graph_mlp_adapter
             /\ reg_call'[1].use_graph_start_end )
           => /\ SnapshotOfTable(orig_embeds_params', input_embeddings',
                                 reg_call'[1].pretrain_graph_mlp_adapter)
              /\ in_requires_grad'
              /\ ~out_requires_grad'
        /\ ( /\ RegStep
             /\ ~reg_call'[1].use_graph_start_end )
           => UNCHANGED << orig_embeds_params, in_requires_grad, out_requires_grad >>
        /\ orig_embeds_params # None => orig_embeds_params' # None
        /\ (pc = "idle" /\ pc' # "idle") => protect' = (orig_embeds_params # None) ]_vars

C10_Witness ==
    /\ pc = "loop" /\ protect
    /\ reg_call # None
    /\ reg_call[1].tune_graph_mlp_adapter
    /\ reg_call[1].use_graph_start_end
    /\ orig_embeds_params = Some(input_embeddings)
    /\ ~out_requires_grad

(* ------------------------------ C11 ------------------------------------- *)
\* a past cache exists: past_key_values holds cached state
PastExists == Truthy(gen_past)
EmbedsGiven == gen_kwargs.inputs_embeds # None
Prepared == gen_pc = "forward" /\ model_inputs # None

\* C11: what prepare_inputs_for_generation returns holds either ids or
\* embeddings; the ids are the last id of each sequence when a past cache exists
\* and the full ids otherwise; embeddings are there only when the caller gave
\* them and no past cache exists, and are there whenever the caller gave them
\* and past_key_values is None; graph_data is a list of exactly one element, the
\* caller's graph_data, or None when the caller gave none.
C11_GenerationInputs ==
    Prepared =>
        LET mi == model_inputs[1]
        IN  /\ (mi.input_ids = None) # (mi.inputs_embeds = None)
            /\ mi.input_ids # None =>
                   mi.input_ids[1] =
                       IF PastExists
                       THEN [i \in 1..Len(gen_ids) |-> << gen_ids[i][Len(gen_ids[i])] >>]
                       ELSE gen_ids
            /\ mi.inputs_embeds # None =>
                   /\ EmbedsGiven /\ ~PastExists
                   /\ mi.inputs_embeds = gen_kwargs.inputs_embeds
            /\ (EmbedsGiven /\ gen_past = None) => mi.inputs_embeds # None
            /\ mi.graph_data.kind = "list"
            /\ Len(mi.graph_data.elems) = 1
            /\ mi.graph_data.elems[1] =
                   IF gen_kwargs.has_graph_data THEN gen_kwargs.graph_data
                   ELSE NoneObject
            /\ mi.past_key_values = gen_past

C11_Witness ==
    /\ Prepared
    /\ PastExists /\ gen_trace # << >>
    /\ Len(gen_ids[1]) >= 3
    /\ model_inputs[1].input_ids = Some([i \in 1..Len(gen_ids) |-> << gen_ids[i][Len(gen_ids[i])] >>])
    /\ gen_kwargs.has_graph_data /\ gen_kwargs.graph_data.type = "Data"

(* ------------------------------ C12 ------------------------------------- *)
\* the cursor after sample i
CursorAfter(i) == IF i < Len(cursor_at) THEN cursor_at[i + 1] ELSE cur_graph_idx

\* the 0-based places of the feature sets sample i consumed
Consumed(i) == cursor_at[i]..(CursorAfter(i) - 1)

\* the merged row of sample i is made of sample i's own material: it is as long
\* as the sample, and each of its values is the sample's input embedding at that
\* position or a vector of a feature set the sample consumed
OwnRow(i) ==
    /\ Len(new_input_embeds[i]) = Len(input_ids[i])
    /\ \A q \in 1..Len(new_input_embeds[i]) :
          \/ new_input_embeds[i][q].v = inputs_embeds[i][q].v
          \/ \E c \in Consumed(i) :
                \E k \in 1..Len(graph_node_features[c + 1]) :
                    new_input_embeds[i][q].v = graph_node_features[c + 1][k].v

\* a start/end sample with PATCH tokens and no START marker
NoStartSample(i) == StartEndMode /\ ~IsTextOnly(i) /\ StartPositions(i) = << >>

\* C12: in a splice call the merged row of every processed sample is made of
\* that sample's ids, embeddings and consumed feature sets alone, never of a row
\* computed for another sample, a start/end sample with PATCH tokens and no
\* START marker included.
C12_RowsIndependent ==
    Spliced => \A i \in Processed : OwnRow(i)

\* the same for the samples other than those with PATCH tokens and no START
C12_RowsIndependentWithStart ==
    Spliced => \A i \in Processed : ~NoStartSample(i) => OwnRow(i)

(* ------------------------------ C13 ------------------------------------- *)
\* a forward call on token ids is under way or has ended
InCall == pc # "idle" /\ input_ids # << >>

\* the token embeddings of the call's ids, as the embedding table gives them
TokenEmbeds ==
    [i \in 1..Len(input_ids) |->
        EmbedTokens(input_embeddings, in_requires_grad, input_ids[i])]

\* the call feeds one token per sequence outside training
SingleTokenStep == InCall /\ Len(input_ids[1]) = 1 /\ ~training

\* C13: a forward call takes the splice branch exactly when the model has a
\* graph tower, graph_data is not None, and the input has more than one token
\* per sequence or the model is training; a call that feeds one token per
\* sequence outside training invokes no graph encoder, raises no error and hands
\* the token embeddings unchanged to the decoder backbone; in a generation
\* outside training no step that has a past cache splices, and when the cache is
\* in use only the first step of the generation can splice.
C13_SpliceBypass ==
    /\ InCall =>
          (SpliceRan <=> ( /\ graph_tower
                           /\ graph_data.kind # "None"
                           /\ (Len(input_ids[1]) # 1 \/ training) ))
    /\ SingleTokenStep =>
          /\ pc = "done" /\ err = ""
          /\ graph_node_features = << >>
          /\ cursor_at = << >> /\ new_input_embeds = << >>
          /\ backbone_inputs = Some(TokenEmbeds)
    /\ ~training =>
          \A k \in 1..Len(gen_trace) :
              /\ gen_trace[k].cached =>
                    /\ gen_trace[k].fed = 1
                    /\ ~gen_trace[k].spliced
                    /\ gen_trace[k].encoded = 0
                    /\ gen_trace[k].err = ""
                    /\ gen_trace[k].unchanged
              /\ (gen_trace[k].spliced /\ gen_kwargs.use_cache) => k = 1

C13_Witness ==
    /\ graph_tower /\ ~training
    /\ gen_kwargs.use_cache
    /\ Len(gen_trace) = 2
    /\ gen_trace[1].spliced /\ gen_trace[1].encoded = 1 /\ gen_trace[1].err = ""
    /\ ~gen_trace[1].unchanged
    /\ gen_trace[2].cached /\ ~gen_trace[2].spliced /\ gen_trace[2].unchanged
    /\ SingleTokenStep /\ pc = "done"
=============================================================================
